---- MODULE Spec2Model ----
(***************************************************************************)
(* Model of the BreezeChMS client bindings.                                *)
(*                                                                         *)
(* Four variants of the client live in the repository:                     *)
(*   "obj"  class BreezeApi taking one object argument    (part_001)       *)
(*   "pos"  class BreezeApi taking positional arguments   (breeze.ts)      *)
(*   "cls"  class BreezeAsync                             (part_000)       *)
(*   "fac"  factory function BreezeAsync                  (breeze.ts)      *)
(*                                                                         *)
(* JavaScript values are modelled as follows.  An optional argument is a   *)
(* sequence of length at most one: << >> is undefined, <<v>> is the value  *)
(* v.  Strings are TLA+ strings, concatenated with \o.  A decoded JSON     *)
(* value is a tagged tuple: <<"object", r>> with r a record of tagged      *)
(* scalars, <<"array", n>>, <<"boolean", b>>, <<"null">>.                  *)
(***************************************************************************)
EXTENDS Integers, Sequences, FiniteSets, TLC

VARIABLES client, ctor, calls, nfetch

vars == <<client, ctor, calls, nfetch>>

(***************************************************************************)
(* Bounds of the model.                                                    *)
(***************************************************************************)
\* identifiers (person_id, instance_id, campaign_id) range over 0..MaxId
MaxId == 1
\* a client issues at most MaxFetch HTTP requests in one behaviour
MaxFetch == 2
\* calls one client has outstanding at once
MaxCalls == 2

(***************************************************************************)
(* JavaScript primitives.                                                  *)
(***************************************************************************)
Undefined == << >>

IsDef(x) == x # << >>

\* String.prototype.search(/^p/) > -1
StartsWith(s, p) == Len(s) >= Len(p) /\ SubSeq(s, 1, Len(p)) = p

\* String.prototype.search(/p$/) > -1
EndsWith(s, p) ==
    Len(s) >= Len(p) /\ SubSeq(s, Len(s) - Len(p) + 1, Len(s)) = p

\* truthiness of an optional string, number, boolean
TruthyStr(x) == IsDef(x) /\ x[1] # ""
TruthyNum(x) == IsDef(x) /\ x[1] # 0
TruthyBool(x) == IsDef(x) /\ x[1]

\* Boolean.prototype.toString
BoolToString(b) == IF b THEN "true" ELSE "false"

\* String.prototype.concat applied to an optional string
ConcatOpt(x) == IF IsDef(x) THEN x[1] ELSE "undefined"

\* Array.prototype.join
RECURSIVE join(_, _)
join(params, sep) ==
    IF Len(params) = 0 THEN ""
    ELSE IF Len(params) = 1 THEN params[1]
    ELSE params[1] \o sep \o join(Tail(params), sep)

(***************************************************************************)
(* Construction.                                                           *)
(***************************************************************************)
NoClient ==
    [variant |-> "none", breeze_url |-> Undefined, api_key |-> Undefined,
     dry_run |-> Undefined]

\* url_accepted without the test of the domain suffix
url_accepted_any_domain(breeze_url) ==
    /\ TruthyStr(breeze_url)
    /\ StartsWith(breeze_url[1], "https://")

\* the test both constructors and the factory apply to the base URL
url_accepted(breeze_url) ==
    /\ TruthyStr(breeze_url)
    /\ StartsWith(breeze_url[1], "https://")
    /\ EndsWith(breeze_url[1], ".breezechms.com")

\* new BreezeApi(breeze_url, api_key, dry_run), object-argument variant
constructor_obj(breeze_url, api_key, dry_run) ==
    LET this == [variant |-> "obj", breeze_url |-> breeze_url,
                 api_key |-> api_key,
                 dry_run |-> <<TruthyBool(dry_run)>>]
    IN  IF ~url_accepted(this.breeze_url)
        THEN [threw |-> "url", client |-> NoClient]
        ELSE IF ~TruthyStr(this.api_key)
        THEN [threw |-> "key", client |-> NoClient]
        ELSE [threw |-> "none", client |-> this]

\* constructor_pos without the test of the API key
constructor_pos_any_key(breeze_url, api_key, dry_run) ==
    LET this == [variant |-> "pos", breeze_url |-> breeze_url,
                 api_key |-> api_key,
                 dry_run |-> IF dry_run = Undefined THEN <<FALSE>>
                             ELSE dry_run]
    IN  IF ~url_accepted(this.breeze_url)
        THEN [threw |-> "url", client |-> NoClient]
        ELSE [threw |-> "none",
              client |-> [this EXCEPT !.api_key = <<ConcatOpt(api_key)>>]]

\* new BreezeApi(breeze_url, api_key, dry_run), positional variant
constructor_pos(breeze_url, api_key, dry_run) ==
    LET this == [variant |-> "pos", breeze_url |-> breeze_url,
                 api_key |-> api_key,
                 dry_run |-> IF dry_run = Undefined THEN <<FALSE>>
                             ELSE dry_run]
    IN  IF ~url_accepted(this.breeze_url)
        THEN [threw |-> "url", client |-> NoClient]
        ELSE IF ~TruthyStr(this.api_key)
        THEN [threw |-> "key", client |-> NoClient]
        ELSE [threw |-> "none", client |-> this]

\* new BreezeAsync(breeze_url, api_key, dry_run), class variant
constructor_cls(breeze_url, api_key, dry_run) ==
    LET this == [variant |-> "cls", breeze_url |-> breeze_url,
                 api_key |-> api_key,
                 dry_run |-> <<TruthyBool(dry_run)>>]
    IN  IF ~url_accepted(this.breeze_url)
        THEN [threw |-> "url", client |-> NoClient]
        ELSE IF ~TruthyStr(this.api_key)
        THEN [threw |-> "key", client |-> NoClient]
        ELSE [threw |-> "none", client |-> this]

\* BreezeAsync(breeze_url, api_key, dry_run), factory variant
BreezeAsync_fac(breeze_url, api_key, dry_run) ==
    IF ~url_accepted(breeze_url)
    THEN [threw |-> "url", client |-> NoClient]
    ELSE IF ~TruthyStr(api_key)
    THEN [threw |-> "key", client |-> NoClient]
    ELSE [threw |-> "none",
          client |-> [variant |-> "fac", breeze_url |-> breeze_url,
                      api_key |-> api_key, dry_run |-> dry_run]]

(***************************************************************************)
(* Decoded JSON values and what the network can answer.                    *)
(***************************************************************************)
Str(s) == <<"string", s>>
Num(n) == <<"number", n>>
Bool(b) == <<"boolean", b>>
Null == <<"null">>
Obj(r) == <<"object", r>>
Arr(n) == <<"array", n>>

\* the value {}
EmptyObject == Obj(<< >>)

\* typeof v
typeof(v) == IF v[1] \in {"array", "null"} THEN "object" ELSE v[1]

\* key in v: "true", "false", or "TypeError" when v is not an object
HasKey(key, v) ==
    IF v[1] = "object" THEN BoolToString(key \in DOMAIN v[2])
    ELSE IF v[1] \in {"array", "promise"} THEN "false"
    ELSE "TypeError"

\* a || b over the three outcomes of the in operator, left to right
OrIn(a, b) ==
    IF a = "TypeError" THEN "TypeError"
    ELSE IF a = "true" THEN "true"
    ELSE b

\* BreezeApi._request_succeeded (object-argument variant)
request_succeeded_obj(response) ==
    LET e == OrIn(HasKey("error", response), HasKey("errorCode", response))
    IN  IF e = "TypeError" THEN "TypeError"
        ELSE BoolToString(e # "true")

\* BreezeApi._request_succeeded (positional variant)
request_succeeded_pos(response) ==
    LET e == OrIn(HasKey("error", response), HasKey("errorCode", response))
    IN  IF e = "TypeError" THEN "TypeError"
        ELSE BoolToString(e # "true")

\* BreezeAsync._request_succeeded (class variant)
request_succeeded_cls(response) ==
    IF typeof(response) = "boolean" THEN "true"
    ELSE LET e == OrIn(HasKey("error", response),
                       HasKey("errorCode", response))
         IN  IF e = "TypeError" THEN "TypeError"
             ELSE BoolToString(e # "true")

\* _request_succeeded of the factory module
request_succeeded_fac(response) ==
    IF typeof(response) = "boolean" THEN "true"
    ELSE LET e == OrIn(HasKey("error", response),
                       HasKey("errorCode", response))
         IN  IF e = "TypeError" THEN "TypeError"
             ELSE BoolToString(e # "true")

\* a rejection carrying a BreezeError; cause tells what it wraps
BreezeErrorOf(cause) == <<"BreezeError", cause>>

\* bodies the service may send, once decoded
Bodies ==
    {Obj([id |-> Str("1")]),
     Obj([error |-> Str("bad key")]),
     Obj([errorCode |-> Num(7)]),
     Obj([error |-> Bool(FALSE)]),
     Obj([payment_id |-> Str("P")]),
     Arr(0),
     Bool(TRUE),
     Bool(FALSE)}

\* what fetch can come back with: a transport failure (DNS, connection
\* refused, timeout) or a response with a status and a body
NetOutcomes ==
    {[net |-> "failed", status |-> 0, json |-> "none", body |-> Null]}
    \cup {[net |-> "ok", status |-> st, json |-> "valid", body |-> b] :
             st \in {200, 500}, b \in Bodies}
    \cup {[net |-> "ok", status |-> st, json |-> "invalid", body |-> Null] :
             st \in {200, 500}}

(***************************************************************************)
(* The request primitive.  The result of a synchronous call is a record:   *)
(*   threw     "none", or the error thrown before returning                *)
(*   fetch     << >>, or <<r>> with r the request handed to fetch           *)
(*   returned  what the caller gets: "promise", "undefined", "none"         *)
(*   pstate    state of the promise _request made: "pending", "resolved",   *)
(*             "rejected", or "none" when _request was not reached          *)
(*   pvalue    the value the promise settled with                           *)
(***************************************************************************)
Throw(kind) ==
    [threw |-> kind, fetch |-> << >>, returned |-> "none",
     pstate |-> "none", pvalue |-> Null]

\* FetchOptions with the key appended to the URL instead of the Api-Key header
FetchOptions_key_in_url(this, url, seconds) ==
    [url |-> url \o "&api_key=" \o this.api_key[1], method |-> "GET",
     content_type |-> "application/json", api_key |-> "",
     timeout |-> seconds * 1000, mode |-> "cors"]

FetchOptions(this, url, seconds) ==
    [url |-> url, method |-> "GET", content_type |-> "application/json",
     api_key |-> this.api_key[1], timeout |-> seconds * 1000,
     mode |-> "cors"]

Fetching(options) ==
    [threw |-> "none", fetch |-> <<options>>, returned |-> "promise",
     pstate |-> "pending", pvalue |-> Null]

\* fetch.Promise.resolve({})
ResolvedEmpty ==
    [threw |-> "none", fetch |-> << >>, returned |-> "promise",
     pstate |-> "resolved", pvalue |-> EmptyObject]

\* optionalObj is << >> or <<[timeout |-> t]>> with t an optional number
TimeoutOf(optionalObj) ==
    IF optionalObj # Undefined /\ optionalObj[1].timeout # Undefined
    THEN optionalObj[1].timeout[1] ELSE 30

\* BreezeApi._request(endpoint, optionalObj), object-argument variant
request_obj(this, endpoint, optionalObj) ==
    LET url == this.breeze_url[1] \o endpoint
    IN  IF ~TruthyBool(this.dry_run)
        THEN Fetching(FetchOptions(this, url, TimeoutOf(optionalObj)))
        ELSE ResolvedEmpty

\* BreezeApi._request(endpoint, params, headers, timeout), positional variant
request_pos(this, endpoint, params, headers, timeout) ==
    LET url == this.breeze_url[1] \o endpoint
        time_out == IF TruthyNum(timeout) THEN timeout[1] ELSE 60
    IN  IF ~TruthyBool(this.dry_run)
        THEN Fetching(FetchOptions(this, url, time_out))
        ELSE ResolvedEmpty

\* BreezeAsync._request(endpoint, optionalObj), class variant
request_cls(this, endpoint, optionalObj) ==
    LET url == this.breeze_url[1] \o endpoint
    IN  IF ~TruthyBool(this.dry_run)
        THEN Fetching(FetchOptions(this, url, TimeoutOf(optionalObj)))
        ELSE ResolvedEmpty

\* request_fac with the dry-run test dropped
request_fac_always_fetches(state, endpoint, optionalObj) ==
    LET url == state.breeze_url[1] \o endpoint
    IN  Fetching(FetchOptions(state, url, TimeoutOf(optionalObj)))

\* request(endpoint, optionalObj) of the object the factory returns
request_fac(state, endpoint, optionalObj) ==
    LET url == state.breeze_url[1] \o endpoint
    IN  IF ~TruthyBool(state.dry_run)
        THEN Fetching(FetchOptions(state, url, TimeoutOf(optionalObj)))
        ELSE ResolvedEmpty

\* SettleDecoded without the final .catch: what fetch or res.json() rejected
\* with goes to the caller as it is
SettleDecoded_without_catch(o, succeeded) ==
    IF o.net = "failed"
    THEN [pstate |-> "rejected", pvalue |-> <<"FetchError", "transport">>]
    ELSE IF o.json = "invalid"
    THEN [pstate |-> "rejected", pvalue |-> <<"FetchError", "json">>]
    ELSE IF succeeded = "TypeError"
    THEN [pstate |-> "rejected", pvalue |-> <<"TypeError", "in">>]
    ELSE IF succeeded = "false"
    THEN [pstate |-> "rejected", pvalue |-> BreezeErrorOf("data")]
    ELSE [pstate |-> "resolved", pvalue |-> o.body]

\* the promise chain fetch(url, options).then(res => res.json()).then(data =>
\* ...).catch(error => ...) of the three class variants, run on outcome o;
\* succeeded is the variant's _request_succeeded applied to the decoded body
SettleDecoded(o, succeeded) ==
    IF o.net = "failed"
    THEN [pstate |-> "rejected", pvalue |-> BreezeErrorOf("transport")]
    ELSE IF o.json = "invalid"
    THEN [pstate |-> "rejected", pvalue |-> BreezeErrorOf("json")]
    ELSE IF succeeded = "TypeError"
    THEN [pstate |-> "rejected", pvalue |-> BreezeErrorOf("TypeError")]
    ELSE IF succeeded = "false"
    THEN [pstate |-> "rejected", pvalue |-> BreezeErrorOf("data")]
    ELSE [pstate |-> "resolved", pvalue |-> o.body]

settle_obj(o) == SettleDecoded(o, request_succeeded_obj(o.body))

settle_pos(o) == SettleDecoded(o, request_succeeded_pos(o.body))

settle_cls(o) == SettleDecoded(o, request_succeeded_cls(o.body))

\* the factory's chain fetch(url, options).then(res => ...).catch(...): the
\* predicate is applied to res.json(), a promise, and res itself is passed on
settle_fac(o) ==
    IF o.net = "failed"
    THEN [pstate |-> "rejected", pvalue |-> BreezeErrorOf("transport")]
    ELSE LET succeeded == request_succeeded_fac(<<"promise">>)
         IN  IF succeeded = "TypeError"
             THEN [pstate |-> "rejected",
                   pvalue |-> BreezeErrorOf("TypeError")]
             ELSE IF succeeded = "false"
             THEN [pstate |-> "rejected", pvalue |-> BreezeErrorOf("res")]
             ELSE [pstate |-> "resolved",
                   pvalue |-> <<"Response", o.status>>]

\* r['payment_id'] where r is what _request returned: a promise has no such
\* property
IndexPaymentId(r) ==
    IF r.threw # "none" THEN r ELSE [r EXCEPT !.returned = "undefined"]

\* try { return r } finally { handler }: the handler's request goes out as well
TryCatch_always_runs_handler(r, handler) ==
    [r EXCEPT !.fetch = r.fetch \o handler.fetch]

\* try { return r } catch (e) { handler }: the handler runs when r threw, and
\* what r had sent before throwing stays sent
TryCatch(r, handler) ==
    IF r.threw = "none" THEN r
    ELSE [handler EXCEPT !.fetch = r.fetch \o handler.fetch]

(***************************************************************************)
(* Helpers the methods share.                                              *)
(***************************************************************************)
\* String.prototype.trim, for the blank character
RECURSIVE trim(_)
trim(s) ==
    IF Len(s) = 0 THEN s
    ELSE IF SubSeq(s, 1, 1) = " " THEN trim(SubSeq(s, 2, Len(s)))
    ELSE IF SubSeq(s, Len(s), Len(s)) = " "
    THEN trim(SubSeq(s, 1, Len(s) - 1))
    ELSE s

\* JSON.stringify of an object with at most one, string-valued, key
JSON_stringify(v) ==
    IF DOMAIN v[2] = {} THEN "{}"
    ELSE LET k == CHOOSE k \in DOMAIN v[2] : TRUE
         IN  "{\"" \o k \o "\":\"" \o v[2][k][2] \o "\"}"

\* if (x !== undefined) params.push(name + x.toString()), for a number
PushNum(name, x) == IF IsDef(x) THEN <<name \o ToString(x[1])>> ELSE << >>

\* if (x !== undefined) params.push(name.concat(x)), for a string
PushStr(name, x) == IF IsDef(x) THEN <<name \o x[1]>> ELSE << >>

\* if (x !== undefined) params.push(name + x.toString()), for a boolean
PushBool(name, x) ==
    IF IsDef(x) THEN <<name \o BoolToString(x[1])>> ELSE << >>

\* if (x !== undefined) params.push(text), text a literal
PushLit(text, x) == IF IsDef(x) THEN <<text>> ELSE << >>

\* if (x !== undefined) params.push(name.concat(x.join('-')))
PushList(name, x) == IF IsDef(x) THEN <<name \o join(x[1], "-")>> ELSE << >>

\* ENDPOINTS
PEOPLE == "/api/people"
EVENTS == "/api/events"
ATTENDANCE == "/api/events/attendance"
PROFILE_FIELDS == "/api/profile"
CONTRIBUTIONS == "/api/giving"
FUNDS == "/api/funds"
PLEDGES == "/api/pledges"
TAGS == "/api/tags"

(***************************************************************************)
(* BreezeApi, object-argument variant: people, tags, events.               *)
(***************************************************************************)
get_people_obj(this, a) ==
    LET params ==
            PushNum("limit=", a.limit)
            \o PushNum("offset=", a.offset)
            \o (IF IsDef(a.details) /\ a.details[1] = TRUE
                THEN <<"details=1">> ELSE << >>)
            \o (IF IsDef(a.filter_json)
                THEN <<"filter_json=" \o JSON_stringify(a.filter_json[1])>>
                ELSE << >>)
    IN  request_obj(this, PEOPLE \o "/?" \o join(params, "&"),
                    <<[timeout |-> <<10>>]>>)

get_person_details_obj(this, a) ==
    IF ~IsDef(a.person_id) THEN Throw("TypeError")
    ELSE request_obj(this, PEOPLE \o "/" \o ToString(a.person_id[1]),
                     Undefined)

get_profile_fields_obj(this) == request_obj(this, PROFILE_FIELDS, Undefined)

get_tags_obj(this, a) ==
    LET params == PushLit("folder_id=" \o "folder_id", a.folder_id)
    IN  TryCatch(request_obj(this, TAGS \o "/list_tags?"
                                   \o join(params, "&"), Undefined),
                 request_obj(this, TAGS \o "/list_tags", Undefined))

get_folders_obj(this) == request_obj(this, TAGS \o "/list_folders", Undefined)

get_events_obj(this, a) ==
    LET params ==
            PushStr("start=", a.start_date)
            \o PushStr("end=", a.end_date)
            \o PushStr("category_id=", a.category_id)
            \o PushBool("eligible=", a.eligible)
            \o (IF IsDef(a.details) /\ a.details[1] = TRUE
                THEN <<"details=1">> ELSE << >>)
            \o PushNum("limit=", a.limit)
    IN  TryCatch(request_obj(this, EVENTS \o "/?" \o join(params, "&"),
                             Undefined),
                 request_obj(this, EVENTS, Undefined))

\* switch (schedule_direction.trim()): the cases 'before' and 'after' push
\* the parameter and, having no break, run on into the default, which throws
schedule_direction_switch(schedule_direction) ==
    [params |-> IF trim(schedule_direction) \in {"before", "after"}
                THEN <<"schedule_direction=" \o schedule_direction>>
                ELSE << >>,
     threw |-> "BreezeError"]

get_event_obj(this, a) ==
    LET sw == IF IsDef(a.schedule_direction)
              THEN schedule_direction_switch(a.schedule_direction[1])
              ELSE [params |-> << >>, threw |-> "none"]
    IN  IF ~IsDef(a.instance_id) THEN Throw("BreezeError")
        ELSE IF IsDef(a.schedule_direction) /\ ~TruthyBool(a.schedule)
        THEN Throw("BreezeError")
        ELSE IF sw.threw # "none" THEN Throw(sw.threw)
        ELSE IF IsDef(a.schedule_limit) /\ ~TruthyBool(a.schedule)
        THEN Throw("BreezeError")
        ELSE IF IsDef(a.details) /\ ~IsDef(a.eligible)
        THEN Throw("TypeError")
        ELSE LET params ==
                     PushNum("instance_id=", a.instance_id)
                     \o PushBool("schedule=", a.schedule)
                     \o sw.params
                     \o PushNum("schedule_limit=", a.schedule_limit)
                     \o PushBool("eligible=", a.eligible)
                     \o (IF IsDef(a.details)
                         THEN <<"details=" \o BoolToString(a.eligible[1])>>
                         ELSE << >>)
             IN  request_obj(this, EVENTS \o "/list_event?"
                                   \o join(params, "&"), Undefined)

(***************************************************************************)
(* BreezeApi, object-argument variant: check in, attendance.               *)
(***************************************************************************)
event_check_in_obj(this, a) ==
    LET params == PushNum("person_id=", a.person_id)
                  \o PushNum("instance_id=", a.instance_id)
    IN  IF ~TruthyNum(a.person_id) \/ ~TruthyNum(a.instance_id)
        THEN Throw("BreezeError")
        ELSE request_obj(this, ATTENDANCE \o "/add?" \o join(params, "&"),
                         Undefined)

event_check_out_obj(this, a) ==
    LET params == PushNum("person_id=", a.person_id)
                  \o PushNum("instance_id=", a.instance_id)
    IN  IF ~TruthyNum(a.person_id) \/ ~TruthyNum(a.instance_id)
        THEN Throw("BreezeError")
        ELSE request_obj(this, ATTENDANCE \o "/delete?"
                               \o join(params, "&"), Undefined)

\* switch (type.trim()): as in get_event, the matching cases run on into the
\* default, which throws
type_switch(type) ==
    [params |-> IF trim(type) \in {"person", "anonymous"}
                THEN <<"type=" \o type>> ELSE << >>,
     threw |-> "BreezeError"]

get_event_list_obj(this, a) ==
    LET sw == IF IsDef(a.type) THEN type_switch(a.type[1])
              ELSE [params |-> << >>, threw |-> "none"]
    IN  IF ~IsDef(a.instance_id) THEN Throw("BreezeError")
        ELSE IF sw.threw # "none" THEN Throw(sw.threw)
        ELSE LET params == PushNum("instance_id=", a.instance_id)
                           \o PushBool("details=", a.details)
                           \o sw.params
             IN  request_obj(this, ATTENDANCE \o "/delete?"
                                   \o join(params, "&"), Undefined)

get_event_eligible_obj(this, a) ==
    IF ~IsDef(a.instance_id) THEN Throw("BreezeError")
    ELSE request_obj(this, ATTENDANCE \o "/eligible?"
                           \o join(PushNum("instance_id=", a.instance_id),
                                   "&"), Undefined)

(***************************************************************************)
(* BreezeApi, object-argument variant: contributions, funds, pledges.      *)
(***************************************************************************)
list_contributions_obj(this, a) ==
    IF IsDef(a.include_family) /\ a.include_family[1] = TRUE
       /\ ~TruthyNum(a.person_id)
    THEN Throw("BreezeError")
    ELSE LET params ==
                 PushStr("start=", a.start_date)
                 \o PushStr("end=", a.end_date)
                 \o PushNum("person_id=", a.person_id)
                 \o (IF IsDef(a.include_family) /\ a.include_family[1] = TRUE
                     THEN PushBool("include_family=", a.include_family)
                     ELSE << >>)
                 \o PushNum("amount_min=", a.amount_min)
                 \o PushNum("amount_max=", a.amount_max)
                 \o PushList("method_ids=", a.method_ids)
                 \o PushList("fund_ids=", a.fund_ids)
                 \o PushNum("envelope_number=", a.envelope_number)
                 \o PushList("batches=", a.batches)
                 \o PushList("forms=", a.forms)
         IN  TryCatch(request_obj(this, CONTRIBUTIONS \o "/list?"
                                        \o join(params, "&"), Undefined),
                      request_obj(this, CONTRIBUTIONS \o "/list", Undefined))

\* add_contribution_obj with `else if (uid ...)` turned into `if (uid ...)`
add_contribution_obj_sends_both(this, a) ==
    IF ~IsDef(a.person_id) /\ ~IsDef(a.uid) THEN Throw("BreezeError")
    ELSE LET params ==
                 PushLit("person_id=" \o "person_id", a.person_id)
                 \o PushLit("uid=" \o "uid", a.uid)
         IN  IndexPaymentId(request_obj(this, CONTRIBUTIONS \o "/add?"
                                              \o join(params, "&"),
                                        Undefined))

\* every value pushed is the parameter's own name, a string literal
add_contribution_obj(this, a) ==
    IF ~IsDef(a.person_id) /\ ~IsDef(a.uid) THEN Throw("BreezeError")
    ELSE LET params ==
                 PushLit("date=" \o "date", a.date)
                 \o PushLit("name=" \o "name", a.name)
                 \o (IF IsDef(a.person_id)
                     THEN <<"person_id=" \o "person_id">>
                     ELSE <<"uid=" \o "uid">>)
                 \o PushLit("processor=" \o "processor", a.processor)
                 \o PushLit("method=" \o "method", a.method)
                 \o PushLit("funds_json=" \o "funds_json", a.funds_json)
                 \o PushLit("amount=" \o "amount", a.amount)
                 \o PushLit("group=" \o "group", a.group)
                 \o PushLit("batch_number=" \o "batch_number",
                            a.batch_number)
                 \o PushLit("batch_name=" \o "batch_name", a.batch_name)
         IN  IndexPaymentId(request_obj(this, CONTRIBUTIONS \o "/add?"
                                              \o join(params, "&"),
                                        Undefined))

edit_contribution_obj(this, a) ==
    LET params ==
            PushStr("payment_id=", a.payment_id)
            \o PushStr("date=", a.date)
            \o PushStr("name=", a.name)
            \o PushNum("person_id=", a.person_id)
            \o PushNum("uid=", a.uid)
            \o PushStr("processor=", a.processor)
            \o PushStr("method=", a.method)
            \o PushStr("funds_json=", a.funds_json)
            \o PushStr("amount=", a.amount)
            \o PushStr("group=", a.group)
            \o PushNum("batch_number=", a.batch_number)
            \o PushStr("batch_name=", a.batch_name)
    IN  IndexPaymentId(request_obj(this, CONTRIBUTIONS \o "/edit?"
                                         \o join(params, "&"), Undefined))

delete_contribution_obj(this, a) ==
    IF ~IsDef(a.payment_id) THEN Throw("BreezeError")
    ELSE LET params == <<"payment_id=" \o "payment_id">>
         IN  IndexPaymentId(request_obj(this, CONTRIBUTIONS \o "/delete?"
                                              \o join(params, "&"),
                                        Undefined))

list_funds_obj(this, a) ==
    LET params == IF TruthyBool(a.include_totals)
                  THEN PushBool("include_totals=", a.include_totals)
                  ELSE << >>
    IN  TryCatch(request_obj(this, FUNDS \o "/list?" \o join(params, "&"),
                             Undefined),
                 request_obj(this, FUNDS \o "/list", Undefined))

list_campaigns_obj(this) ==
    request_obj(this, PLEDGES \o "/list_campaigns", Undefined)

list_pledges_obj(this, a) ==
    IF ~IsDef(a.campaign_id) THEN Throw("BreezeError")
    ELSE request_obj(this, PLEDGES \o "/list_pledges?"
                           \o join(PushNum("campaign_id=", a.campaign_id),
                                   "&"), Undefined)

(***************************************************************************)
(* BreezeApi, positional variant.  Identifiers and amounts are strings.    *)
(***************************************************************************)
\* _request is called with 10 in the place of params
get_people_pos(this, a) ==
    LET params == PushNum("limit=", a.limit)
                  \o PushNum("offset=", a.offset)
                  \o PushLit("details=1", a.details)
    IN  request_pos(this, PEOPLE \o "/?" \o join(params, "&"), <<10>>,
                    Undefined, Undefined)

get_person_details_pos(this, a) ==
    request_pos(this, PEOPLE \o "/" \o ConcatOpt(a.person_id), Undefined,
                Undefined, Undefined)

get_profile_fields_pos(this) ==
    request_pos(this, PROFILE_FIELDS, Undefined, Undefined, Undefined)

get_events_pos(this, a) ==
    LET params == PushStr("start=", a.start_date)
                  \o PushStr("end=", a.end_date)
    IN  TryCatch(request_pos(this, EVENTS \o "/?" \o join(params, "&"),
                             Undefined, Undefined, Undefined),
                 request_pos(this, EVENTS, Undefined, Undefined, Undefined))

event_check_in_pos(this, a) ==
    LET params == PushStr("person_id=", a.person_id)
                  \o PushStr("instance_id=", a.event_instance_id)
    IN  request_pos(this, EVENTS \o "/attendance/add?" \o join(params, "&"),
                    Undefined, Undefined, Undefined)

event_check_out_pos(this, a) ==
    LET params == PushStr("person_id=", a.person_id)
                  \o PushStr("instance_id=", a.event_instance_id)
    IN  request_pos(this, EVENTS \o "/attendance/delete?"
                          \o join(params, "&"),
                    Undefined, Undefined, Undefined)

add_contribution_pos(this, a) ==
    IF ~IsDef(a.person_id) /\ ~IsDef(a.uid) THEN Throw("BreezeError")
    ELSE LET params ==
                 PushLit("date=" \o "date", a.date)
                 \o PushLit("name=" \o "name", a.name)
                 \o (IF IsDef(a.person_id)
                     THEN <<"person_id=" \o "person_id">>
                     ELSE <<"uid=" \o "uid">>)
                 \o PushLit("processor=" \o "processor", a.processor)
                 \o PushLit("method=" \o "method", a.method)
                 \o PushLit("funds_json=" \o "funds_json", a.funds_json)
                 \o PushLit("amount=" \o "amount", a.amount)
                 \o PushLit("group=" \o "group", a.group)
                 \o PushLit("batch_number=" \o "batch_number",
                            a.batch_number)
                 \o PushLit("batch_name=" \o "batch_name", a.batch_name)
         IN  IndexPaymentId(request_pos(this, CONTRIBUTIONS \o "/add?"
                                              \o join(params, "&"),
                                        Undefined, Undefined, Undefined))

edit_contribution_pos(this, a) ==
    LET params ==
            PushStr("payment_id=", a.payment_id)
            \o PushStr("date=", a.date)
            \o PushStr("name=", a.name)
            \o PushStr("person_id=", a.person_id)
            \o PushStr("uid=", a.uid)
            \o PushStr("processor=", a.processor)
            \o PushStr("method=", a.method)
            \o PushStr("funds_json=", a.funds_json)
            \o PushStr("amount=", a.amount)
            \o PushStr("group=", a.group)
            \o PushStr("batch_number=", a.batch_number)
            \o PushStr("batch_name=", a.batch_name)
    IN  IndexPaymentId(request_pos(this, CONTRIBUTIONS \o "/edit?"
                                         \o join(params, "&"),
                                   Undefined, Undefined, Undefined))

delete_contribution_pos(this, a) ==
    LET params == PushLit("payment_id=" \o "payment_id", a.payment_id)
    IN  TryCatch(IndexPaymentId(request_pos(this, CONTRIBUTIONS \o "/delete?"
                                                  \o join(params, "&"),
                                            Undefined, Undefined,
                                            Undefined)),
                 Throw("BreezeError"))

list_contributions_pos(this, a) ==
    IF IsDef(a.include_family) /\ ~TruthyStr(a.person_id)
    THEN Throw("BreezeError")
    ELSE LET params ==
                 PushStr("start=", a.start_date)
                 \o PushStr("end=", a.end_date)
                 \o PushStr("person_id=", a.person_id)
                 \o PushLit("include_family=1", a.include_family)
                 \o PushStr("amount_min=", a.amount_min)
                 \o PushStr("amount_max=", a.amount_max)
                 \o PushList("method_ids=", a.method_ids)
                 \o PushList("fund_ids=", a.fund_ids)
                 \o PushStr("envelope_number=", a.envelope_number)
                 \o PushList("batches=", a.batches)
                 \o PushList("forms=", a.forms)
         IN  TryCatch(request_pos(this, CONTRIBUTIONS \o "/list?"
                                        \o join(params, "&"),
                                  Undefined, Undefined, Undefined),
                      request_pos(this, CONTRIBUTIONS, Undefined, Undefined,
                                  Undefined))

list_funds_pos(this, a) ==
    LET params == IF TruthyBool(a.include_totals)
                  THEN <<"include_totals=1">> ELSE << >>
    IN  TryCatch(request_pos(this, FUNDS \o "/list?" \o join(params, "&"),
                             Undefined, Undefined, Undefined),
                 request_pos(this, FUNDS, Undefined, Undefined, Undefined))

list_campaigns_pos(this) ==
    request_pos(this, PLEDGES \o "/list_campaigns", Undefined, Undefined,
                Undefined)

\* list_pledges_pos sending the request first and validating afterwards
list_pledges_pos_validates_late(this, a) ==
    LET params == PushStr("campaign_id=", a.campaign_id)
        r == request_pos(this, PLEDGES \o "/list_pledges?"
                               \o join(params, "&"),
                         Undefined, Undefined, Undefined)
    IN  IF ~IsDef(a.campaign_id)
        THEN [r EXCEPT !.threw = "BreezeError", !.returned = "none"]
        ELSE r

list_pledges_pos(this, a) ==
    LET params == PushStr("campaign_id=", a.campaign_id)
    IN  TryCatch(request_pos(this, PLEDGES \o "/list_pledges?"
                                   \o join(params, "&"),
                             Undefined, Undefined, Undefined),
                 Throw("BreezeError"))

\* inputs of construction
Urls ==
    {Undefined, <<"">>, <<"https://demo.breezechms.com">>,
     <<"http://demo.breezechms.com">>, <<"demo.breezechms.com">>,
     <<"https://demo.breezechms.com/">>, <<"https://evil.example">>,
     <<"https://evil.example/.breezechms.com">>}
Keys == {Undefined, <<"">>, <<"k3y">>}
DryRuns == {Undefined, <<FALSE>>, <<TRUE>>}

(***************************************************************************)
(* Inputs of the calls.                                                    *)
(***************************************************************************)
BoolOpt == {Undefined, <<FALSE>>, <<TRUE>>}
\* numeric identifiers; 0 is the falsy one
IdOpt == {Undefined} \cup {<<i>> : i \in 0..MaxId}
\* identifiers as strings; "" is the falsy one
StrIdOpt == {Undefined, <<"">>} \cup {<<ToString(i)>> : i \in 1..MaxId}
\* an optional argument that is present exactly when on holds
Opt(on, v) == IF on THEN <<v>> ELSE Undefined

GetPeopleArgsObj ==
    [limit : {Undefined, <<10>>}, offset : {Undefined, <<5>>},
     details : BoolOpt,
     filter_json : {Undefined, <<Obj([tag_contains |-> Str("y_1")])>>}]

GetEventsArgsObj ==
    [start_date : {Undefined, <<"2024-01-01">>, <<"2024-01-01&limit=1">>},
     end_date : {Undefined, <<"2024-01-31">>},
     category_id : {Undefined, <<"3">>},
     eligible : BoolOpt, details : BoolOpt, limit : {Undefined, <<10>>}]

GetEventArgsObj ==
    [instance_id : IdOpt, schedule : BoolOpt,
     schedule_direction : {Undefined, <<"before">>, <<"after ">>,
                           <<"sideways">>},
     schedule_limit : {Undefined, <<5>>},
     eligible : BoolOpt, details : BoolOpt]

CheckInArgsObj == [person_id : IdOpt, instance_id : IdOpt]

GetEventListArgsObj ==
    [instance_id : IdOpt, details : BoolOpt,
     type : {Undefined, <<"person">>, <<" anonymous">>, <<"family">>}]

ListContributionsArgsObj ==
    {[start_date |-> sd, end_date |-> Opt(m, "2024-01-31"),
      person_id |-> p, include_family |-> f,
      amount_min |-> Opt(m, 1), amount_max |-> Opt(m, 100),
      method_ids |-> ids, fund_ids |-> Opt(m, <<"12">>),
      envelope_number |-> Opt(m, 4), batches |-> Opt(m, <<"7", "8">>),
      forms |-> Opt(m, << >>)] :
        sd \in {Undefined, <<"2024-01-01">>}, p \in IdOpt, f \in BoolOpt,
        ids \in {Undefined, <<<<"a", "b">>>>}, m \in BOOLEAN}

AddContributionArgsObj ==
    {[date |-> d, name |-> Opt(m, "John Doe"), person_id |-> p, uid |-> u,
      processor |-> pr, method |-> Opt(m, "Cash"),
      funds_json |-> Opt(m, "[]"), amount |-> am, group |-> Opt(m, "g1"),
      batch_number |-> Opt(m, 100), batch_name |-> Opt(m, "Sunday")] :
        d \in {Undefined, <<"24-5-2015">>}, p \in IdOpt, u \in IdOpt,
        pr \in {Undefined, <<"Stripe">>}, am \in {Undefined, <<"100.00">>},
        m \in BOOLEAN}

EditContributionArgsObj ==
    {[payment_id |-> pay, date |-> d, name |-> Opt(m, "John Doe"),
      person_id |-> p, uid |-> u, processor |-> Opt(m, "Stripe"),
      method |-> Opt(m, "Cash"), funds_json |-> Opt(m, "[]"),
      amount |-> Opt(m, "100.00"), group |-> Opt(m, "g1"),
      batch_number |-> Opt(m, 100), batch_name |-> Opt(m, "Sunday")] :
        pay \in {Undefined, <<"P9">>}, d \in {Undefined, <<"24-5-2015">>},
        p \in IdOpt, u \in IdOpt, m \in BOOLEAN}

GetPeopleArgsPos ==
    [limit : {Undefined, <<10>>}, offset : {Undefined, <<5>>},
     details : BoolOpt]

CheckInArgsPos == [person_id : StrIdOpt, event_instance_id : StrIdOpt]

ListContributionsArgsPos ==
    {[start_date |-> sd, end_date |-> Opt(m, "2024-01-31"),
      person_id |-> p, include_family |-> f,
      amount_min |-> Opt(m, "1"), amount_max |-> Opt(m, "100"),
      method_ids |-> ids, fund_ids |-> Opt(m, <<"12">>),
      envelope_number |-> Opt(m, "4"), batches |-> Opt(m, <<"7", "8">>),
      forms |-> Opt(m, << >>)] :
        sd \in {Undefined, <<"2024-01-01">>}, p \in StrIdOpt,
        f \in BoolOpt, ids \in {Undefined, <<<<"a", "b">>>>},
        m \in BOOLEAN}

AddContributionArgsPos ==
    {[date |-> d, name |-> Opt(m, "John Doe"), person_id |-> p, uid |-> u,
      processor |-> pr, method |-> Opt(m, "Cash"),
      funds_json |-> Opt(m, "[]"), amount |-> am, group |-> Opt(m, "g1"),
      batch_number |-> Opt(m, "100"), batch_name |-> Opt(m, "Sunday")] :
        d \in {Undefined, <<"24-5-2015">>}, p \in StrIdOpt, u \in StrIdOpt,
        pr \in {Undefined, <<"Stripe">>}, am \in {Undefined, <<"100.00">>},
        m \in BOOLEAN}

EditContributionArgsPos ==
    {[payment_id |-> pay, date |-> d, name |-> Opt(m, "John Doe"),
      person_id |-> p, uid |-> u, processor |-> Opt(m, "Stripe"),
      method |-> Opt(m, "Cash"), funds_json |-> Opt(m, "[]"),
      amount |-> Opt(m, "100.00"), group |-> Opt(m, "g1"),
      batch_number |-> Opt(m, "100"), batch_name |-> Opt(m, "Sunday")] :
        pay \in {Undefined, <<"P9">>}, d \in {Undefined, <<"24-5-2015">>},
        p \in StrIdOpt, u \in StrIdOpt, m \in BOOLEAN}

\* endpoints and options handed to the request primitive directly
DirectEndpoints == {PEOPLE, PROFILE_FIELDS}
OptionalObjs ==
    {Undefined, <<[timeout |-> Undefined]>>, <<[timeout |-> <<5>>]>>,
     <<[timeout |-> <<0>>]>>}

(***************************************************************************)
(* The state machine.                                                      *)
(***************************************************************************)
Init ==
    /\ client = NoClient
    /\ ctor = [done |-> FALSE, threw |-> "none", variant |-> "none",
               breeze_url |-> Undefined, api_key |-> Undefined,
               dry_run |-> Undefined]
    /\ calls = << >>
    /\ nfetch = 0

Constructed(variant, r, breeze_url, api_key, dry_run) ==
    /\ ~ctor.done
    /\ ctor' = [done |-> TRUE, threw |-> r.threw, variant |-> variant,
                breeze_url |-> breeze_url, api_key |-> api_key,
                dry_run |-> dry_run]
    /\ client' = r.client
    /\ UNCHANGED <<calls, nfetch>>

NewBreezeApiObj ==
    \E u \in Urls, k \in Keys, d \in DryRuns :
        Constructed("obj", constructor_obj(u, k, d), u, k, d)

NewBreezeApiPos ==
    \E u \in Urls, k \in Keys, d \in DryRuns :
        Constructed("pos", constructor_pos(u, k, d), u, k, d)

NewBreezeAsyncCls ==
    \E u \in Urls, k \in Keys, d \in DryRuns :
        Constructed("cls", constructor_cls(u, k, d), u, k, d)

NewBreezeAsyncFac ==
    \E u \in Urls, k \in Keys, d \in DryRuns :
        Constructed("fac", BreezeAsync_fac(u, k, d), u, k, d)

Pending(c) == c.pstate = "pending"

\* a client of the given variant exists and the caller holds no call
Ready(variant) ==
    /\ client.variant = variant
    /\ calls = << >>

\* Invoke with the request's URL written back into this.breeze_url
Invoke_overwrites_breeze_url(method, a, r) ==
    /\ nfetch + Len(r.fetch) <= MaxFetch
    /\ calls' = <<[method |-> method, args |-> a, threw |-> r.threw,
                   fetch |-> r.fetch, returned |-> r.returned,
                   pstate |-> r.pstate, pvalue |-> r.pvalue,
                   outcome |-> << >>]>>
    /\ nfetch' = nfetch + Len(r.fetch)
    /\ client' = IF r.fetch # << >>
                 THEN [client EXCEPT !.breeze_url = <<r.fetch[1].url>>]
                 ELSE client
    /\ UNCHANGED ctor

\* the caller invokes method with arguments a; r is what the method did
\* before it returned or threw
Invoke(method, a, r) ==
    /\ nfetch + Len(r.fetch) <= MaxFetch
    /\ calls' = <<[method |-> method, args |-> a, threw |-> r.threw,
                   fetch |-> r.fetch, returned |-> r.returned,
                   pstate |-> r.pstate, pvalue |-> r.pvalue,
                   outcome |-> << >>]>>
    /\ nfetch' = nfetch + Len(r.fetch)
    /\ UNCHANGED <<client, ctor>>

NoArgs == [none |-> Undefined]

Call_get_people_obj ==
    /\ Ready("obj")
    /\ \E a \in GetPeopleArgsObj :
           Invoke("get_people", a, get_people_obj(client, a))

Call_get_person_details_obj ==
    /\ Ready("obj")
    /\ \E a \in [person_id : IdOpt] :
           Invoke("get_person_details", a, get_person_details_obj(client, a))

Call_get_profile_fields_obj ==
    /\ Ready("obj")
    /\ Invoke("get_profile_fields", NoArgs, get_profile_fields_obj(client))

Call_get_tags_obj ==
    /\ Ready("obj")
    /\ \E a \in [folder_id : {Undefined, <<"1539">>}] :
           Invoke("get_tags", a, get_tags_obj(client, a))

Call_get_folders_obj ==
    /\ Ready("obj")
    /\ Invoke("get_folders", NoArgs, get_folders_obj(client))

Call_get_events_obj ==
    /\ Ready("obj")
    /\ \E a \in GetEventsArgsObj :
           Invoke("get_events", a, get_events_obj(client, a))

Call_get_event_obj ==
    /\ Ready("obj")
    /\ \E a \in GetEventArgsObj :
           Invoke("get_event", a, get_event_obj(client, a))

Call_event_check_in_obj ==
    /\ Ready("obj")
    /\ \E a \in CheckInArgsObj :
           Invoke("event_check_in", a, event_check_in_obj(client, a))

Call_event_check_out_obj ==
    /\ Ready("obj")
    /\ \E a \in CheckInArgsObj :
           Invoke("event_check_out", a, event_check_out_obj(client, a))

Call_get_event_list_obj ==
    /\ Ready("obj")
    /\ \E a \in GetEventListArgsObj :
           Invoke("get_event_list", a, get_event_list_obj(client, a))

Call_get_event_eligible_obj ==
    /\ Ready("obj")
    /\ \E a \in [instance_id : IdOpt] :
           Invoke("get_event_eligible", a, get_event_eligible_obj(client, a))

Call_list_contributions_obj ==
    /\ Ready("obj")
    /\ \E a \in ListContributionsArgsObj :
           Invoke("list_contributions", a, list_contributions_obj(client, a))

Call_add_contribution_obj ==
    /\ Ready("obj")
    /\ \E a \in AddContributionArgsObj :
           Invoke("add_contribution", a, add_contribution_obj(client, a))

Call_edit_contribution_obj ==
    /\ Ready("obj")
    /\ \E a \in EditContributionArgsObj :
           Invoke("edit_contribution", a, edit_contribution_obj(client, a))

Call_delete_contribution_obj ==
    /\ Ready("obj")
    /\ \E a \in [payment_id : {Undefined, <<"P9">>}] :
           Invoke("delete_contribution", a,
                  delete_contribution_obj(client, a))

Call_list_funds_obj ==
    /\ Ready("obj")
    /\ \E a \in [include_totals : BoolOpt] :
           Invoke("list_funds", a, list_funds_obj(client, a))

Call_list_campaigns_obj ==
    /\ Ready("obj")
    /\ Invoke("list_campaigns", NoArgs, list_campaigns_obj(client))

Call_list_pledges_obj ==
    /\ Ready("obj")
    /\ \E a \in [campaign_id : IdOpt] :
           Invoke("list_pledges", a, list_pledges_obj(client, a))

Call_get_people_pos ==
    /\ Ready("pos")
    /\ \E a \in GetPeopleArgsPos :
           Invoke("get_people", a, get_people_pos(client, a))

Call_get_person_details_pos ==
    /\ Ready("pos")
    /\ \E a \in [person_id : StrIdOpt] :
           Invoke("get_person_details", a, get_person_details_pos(client, a))

Call_get_profile_fields_pos ==
    /\ Ready("pos")
    /\ Invoke("get_profile_fields", NoArgs, get_profile_fields_pos(client))

Call_get_events_pos ==
    /\ Ready("pos")
    /\ \E a \in [start_date : {Undefined, <<"2024-01-01">>},
                 end_date : {Undefined, <<"2024-01-31">>}] :
           Invoke("get_events", a, get_events_pos(client, a))

Call_event_check_in_pos ==
    /\ Ready("pos")
    /\ \E a \in CheckInArgsPos :
           Invoke("event_check_in", a, event_check_in_pos(client, a))

Call_event_check_out_pos ==
    /\ Ready("pos")
    /\ \E a \in CheckInArgsPos :
           Invoke("event_check_out", a, event_check_out_pos(client, a))

Call_add_contribution_pos ==
    /\ Ready("pos")
    /\ \E a \in AddContributionArgsPos :
           Invoke("add_contribution", a, add_contribution_pos(client, a))

Call_edit_contribution_pos ==
    /\ Ready("pos")
    /\ \E a \in EditContributionArgsPos :
           Invoke("edit_contribution", a, edit_contribution_pos(client, a))

Call_delete_contribution_pos ==
    /\ Ready("pos")
    /\ \E a \in [payment_id : {Undefined, <<"P9">>}] :
           Invoke("delete_contribution", a,
                  delete_contribution_pos(client, a))

Call_list_contributions_pos ==
    /\ Ready("pos")
    /\ \E a \in ListContributionsArgsPos :
           Invoke("list_contributions", a, list_contributions_pos(client, a))

Call_list_funds_pos ==
    /\ Ready("pos")
    /\ \E a \in [include_totals : BoolOpt] :
           Invoke("list_funds", a, list_funds_pos(client, a))

Call_list_campaigns_pos ==
    /\ Ready("pos")
    /\ Invoke("list_campaigns", NoArgs, list_campaigns_pos(client))

Call_list_pledges_pos ==
    /\ Ready("pos")
    /\ \E a \in [campaign_id : StrIdOpt] :
           Invoke("list_pledges", a, list_pledges_pos(client, a))

Call_request_cls ==
    /\ Ready("cls")
    /\ \E e \in DirectEndpoints, o \in OptionalObjs :
           Invoke("_request", [endpoint |-> e, optionalObj |-> o],
                  request_cls(client, e, o))

Call_request_fac ==
    /\ Ready("fac")
    /\ \E e \in DirectEndpoints, o \in OptionalObjs :
           Invoke("request", [endpoint |-> e, optionalObj |-> o],
                  request_fac(client, e, o))

\* the promise chain of the client's variant, run on network outcome o
Settle(variant, o) ==
    CASE variant = "obj" -> settle_obj(o)
      [] variant = "pos" -> settle_pos(o)
      [] variant = "cls" -> settle_cls(o)
      [] variant = "fac" -> settle_fac(o)

\* Answer with one handler slot shared by the client's calls: what arrives
\* for call i is handled by the chain of the latest call
Answer_shared_handler(i, o) ==
    /\ Pending(calls[i])
    /\ LET s == Settle(client.variant, o)
           last == Len(calls)
       IN  calls' = [calls EXCEPT ![i].outcome = <<o>>,
                                  ![last].pstate = s.pstate,
                                  ![last].pvalue = s.pvalue]
    /\ UNCHANGED <<client, ctor, nfetch>>

\* fetch of call i comes back with outcome o and the promise chain of that
\* call runs on it
Answer(i, o) ==
    /\ Pending(calls[i])
    /\ LET s == Settle(client.variant, o)
       IN  calls' = [calls EXCEPT ![i].pstate = s.pstate,
                                  ![i].pvalue = s.pvalue,
                                  ![i].outcome = <<o>>]
    /\ UNCHANGED <<client, ctor, nfetch>>

\* the network answers an outstanding request, or fails
Respond == \E i \in DOMAIN calls, o \in NetOutcomes : Answer(i, o)

\* the caller is done with the calls that threw or settled and drops them
Forget ==
    /\ calls # << >>
    /\ \A i \in DOMAIN calls : ~Pending(calls[i])
    /\ calls' = << >>
    /\ UNCHANGED <<client, ctor, nfetch>>

Next ==
    \/ NewBreezeApiObj
    \/ NewBreezeApiPos
    \/ NewBreezeAsyncCls
    \/ NewBreezeAsyncFac
    \/ Call_get_people_obj
    \/ Call_get_person_details_obj
    \/ Call_get_profile_fields_obj
    \/ Call_get_tags_obj
    \/ Call_get_folders_obj
    \/ Call_get_events_obj
    \/ Call_get_event_obj
    \/ Call_event_check_in_obj
    \/ Call_event_check_out_obj
    \/ Call_get_event_list_obj
    \/ Call_get_event_eligible_obj
    \/ Call_list_contributions_obj
    \/ Call_add_contribution_obj
    \/ Call_edit_contribution_obj
    \/ Call_delete_contribution_obj
    \/ Call_list_funds_obj
    \/ Call_list_campaigns_obj
    \/ Call_list_pledges_obj
    \/ Call_get_people_pos
    \/ Call_get_person_details_pos
    \/ Call_get_profile_fields_pos
    \/ Call_get_events_pos
    \/ Call_event_check_in_pos
    \/ Call_event_check_out_pos
    \/ Call_add_contribution_pos
    \/ Call_edit_contribution_pos
    \/ Call_delete_contribution_pos
    \/ Call_list_contributions_pos
    \/ Call_list_funds_pos
    \/ Call_list_campaigns_pos
    \/ Call_list_pledges_pos
    \/ Call_request_cls
    \/ Call_request_fac
    \/ Respond
    \/ Forget

Spec == Init /\ [][Next]_vars

(***************************************************************************)
(* One client with several calls outstanding at once.  A method runs to    *)
(* its return without interruption (JavaScript runs it to completion); the *)
(* answers arrive later, in any order.                                     *)
(***************************************************************************)
\* a client of each variant, constructed with an accepted URL and key
ConcInit ==
    /\ \E d \in DryRuns :
           \E r \in {constructor_obj(<<"https://demo.breezechms.com">>,
                                      <<"k3y">>, d),
                      constructor_pos(<<"https://demo.breezechms.com">>,
                                      <<"k3y">>, d),
                      constructor_cls(<<"https://demo.breezechms.com">>,
                                      <<"k3y">>, d),
                      BreezeAsync_fac(<<"https://demo.breezechms.com">>,
                                      <<"k3y">>, d)} :
               /\ client = r.client
               /\ ctor = [done |-> TRUE, threw |-> r.threw,
                          variant |-> r.client.variant,
                          breeze_url |-> <<"https://demo.breezechms.com">>,
                          api_key |-> <<"k3y">>, dry_run |-> d]
    /\ calls = << >>
    /\ nfetch = 0

\* the caller invokes a method while earlier calls may still be outstanding
ConcInvoke(method, a, r) ==
    /\ Len(calls) < MaxCalls
    /\ calls' = Append(calls,
                       [method |-> method, args |-> a, threw |-> r.threw,
                        fetch |-> r.fetch, returned |-> r.returned,
                        pstate |-> r.pstate, pvalue |-> r.pvalue,
                        outcome |-> << >>])
    /\ nfetch' = nfetch + Len(r.fetch)
    /\ UNCHANGED <<client, ctor>>

ConcCall_get_people_obj ==
    /\ client.variant = "obj"
    /\ \E a \in {a \in GetPeopleArgsObj :
                     a.details = Undefined /\ a.filter_json = Undefined
                     /\ a.offset = Undefined} :
           ConcInvoke("get_people", a, get_people_obj(client, a))

ConcCall_list_pledges_obj ==
    /\ client.variant = "obj"
    /\ \E a \in [campaign_id : IdOpt] :
           ConcInvoke("list_pledges", a, list_pledges_obj(client, a))

ConcCall_get_people_pos ==
    /\ client.variant = "pos"
    /\ \E a \in {a \in GetPeopleArgsPos :
                     a.details = Undefined /\ a.offset = Undefined} :
           ConcInvoke("get_people", a, get_people_pos(client, a))

ConcCall_list_pledges_pos ==
    /\ client.variant = "pos"
    /\ \E a \in [campaign_id : StrIdOpt] :
           ConcInvoke("list_pledges", a, list_pledges_pos(client, a))

ConcCall_request_cls ==
    /\ client.variant = "cls"
    /\ \E e \in DirectEndpoints, o \in OptionalObjs :
           ConcInvoke("_request", [endpoint |-> e, optionalObj |-> o],
                      request_cls(client, e, o))

ConcCall_request_fac ==
    /\ client.variant = "fac"
    /\ \E e \in DirectEndpoints, o \in OptionalObjs :
           ConcInvoke("request", [endpoint |-> e, optionalObj |-> o],
                      request_fac(client, e, o))

\* the answers the concurrent runs draw from
ConcOutcomes ==
    {o \in NetOutcomes :
        \/ o.net = "failed"
        \/ o.status = 200 /\ o.json = "valid"
           /\ o.body \in {Obj([id |-> Str("1")]),
                          Obj([error |-> Str("bad key")])}
        \/ o.status = 500 /\ o.json = "invalid"}

\* the network answers any one of the outstanding requests
ConcRespond == \E i \in DOMAIN calls, o \in ConcOutcomes : Answer(i, o)

\* node-fetch's timer of call i expires: with options.timeout > 0 fetch
\* rejects once that many milliseconds have passed without an answer; with
\* options.timeout = 0 it sets no timer
TimeoutFiresFor(i) ==
    /\ i \in DOMAIN calls
    /\ Pending(calls[i])
    /\ calls[i].fetch[1].timeout > 0
    /\ Answer(i, [net |-> "failed", status |-> 0, json |-> "none",
                  body |-> Null])

ConcNext ==
    \/ ConcCall_get_people_obj
    \/ ConcCall_list_pledges_obj
    \/ ConcCall_get_people_pos
    \/ ConcCall_list_pledges_pos
    \/ ConcCall_request_cls
    \/ ConcCall_request_fac
    \/ ConcRespond
    \/ \E i \in 1..MaxCalls : TimeoutFiresFor(i)

ConcSpec == ConcInit /\ [][ConcNext]_vars

\* the timers run: a timer that is set and not answered first expires
LiveSpec ==
    ConcInit /\ [][ConcNext]_vars
    /\ \A i \in 1..MaxCalls : WF_vars(TimeoutFiresFor(i))

(***************************************************************************)
(* Vocabulary of the properties.                                           *)
(***************************************************************************)
\* sub occurs in s
Contains(s, sub) ==
    \E i \in 1..(Len(s) - Len(sub) + 1) : SubSeq(s, i, i + Len(sub) - 1) = sub

Built == ctor.done /\ ctor.threw = "none"
IsBreezeApi == client.variant \in {"obj", "pos"}
Sent(c) == c.fetch # << >>
\* the call got an answer with a decodable body b
Answered(c, b) ==
    /\ c.outcome # << >>
    /\ c.outcome[1].net = "ok"
    /\ c.outcome[1].json = "valid"
    /\ c.outcome[1].body = b
RejectedWithBreezeError(c) ==
    c.pstate = "rejected" /\ c.pvalue[1] = "BreezeError"

\* C1: a base URL that is empty, does not start with https:// or does not
\* end with .breezechms.com makes construction fail on the URL test and
\* leaves no client, whatever the API key and dry_run are.
C1_BadUrlRejected ==
    (/\ ctor.done
     /\ \/ ctor.breeze_url = Undefined
        \/ ctor.breeze_url = <<"">>
        \/ ~StartsWith(ctor.breeze_url[1], "https://")
        \/ ~EndsWith(ctor.breeze_url[1], ".breezechms.com"))
    => (ctor.threw = "url" /\ client = NoClient)

\* an https URL of another domain was refused although the key was fine
C1_Witness ==
    /\ ctor.done
    /\ ctor.breeze_url = <<"https://evil.example">>
    /\ ctor.api_key = <<"k3y">>
    /\ ctor.dry_run = <<TRUE>>
    /\ ctor.threw = "url"

\* C2: with a base URL that passes the URL test, an empty or missing API key
\* makes construction fail on the key test, in every variant.
C2_EmptyKeyRejected ==
    (/\ ctor.done
     /\ ctor.breeze_url # Undefined
     /\ StartsWith(ctor.breeze_url[1], "https://")
     /\ EndsWith(ctor.breeze_url[1], ".breezechms.com")
     /\ ctor.api_key \in {Undefined, <<"">>})
    => (ctor.threw = "key" /\ client = NoClient)

C2_Witness ==
    /\ ctor.done
    /\ ctor.variant = "pos"
    /\ ctor.breeze_url = <<"https://demo.breezechms.com">>
    /\ ctor.api_key = <<"">>
    /\ ctor.threw = "key"

\* C3: a client constructed with dry_run = true never invokes fetch, whatever
\* methods are called on it.
C3_DryRunNeverFetches ==
    (Built /\ ctor.dry_run = <<TRUE>>)
    => (nfetch = 0 /\ \A i \in DOMAIN calls : ~Sent(calls[i]))

\* a method returned on a dry-run client
C3_Witness ==
    /\ Built
    /\ ctor.dry_run = <<TRUE>>
    /\ ctor.variant = "fac"
    /\ calls # << >>
    /\ calls[1].pstate = "resolved"

\* the arguments satisfy the validation rules the methods declare
DeclaredValid(c) ==
    LET a == c.args
        given(x) == IF client.variant = "obj" THEN TruthyNum(x)
                    ELSE TruthyStr(x)
    IN  CASE c.method = "get_person_details" -> IsDef(a.person_id)
          [] c.method = "get_event" ->
                /\ IsDef(a.instance_id)
                /\ IsDef(a.schedule_direction) =>
                       /\ TruthyBool(a.schedule)
                       /\ trim(a.schedule_direction[1])
                              \in {"before", "after"}
                /\ IsDef(a.schedule_limit) => TruthyBool(a.schedule)
          [] c.method \in {"event_check_in", "event_check_out"} ->
                /\ given(a.person_id)
                /\ given(IF client.variant = "obj" THEN a.instance_id
                         ELSE a.event_instance_id)
          [] c.method = "get_event_list" ->
                /\ IsDef(a.instance_id)
                /\ IsDef(a.type) => trim(a.type[1]) \in {"person", "anonymous"}
          [] c.method = "get_event_eligible" -> IsDef(a.instance_id)
          [] c.method = "list_contributions" ->
                TruthyBool(a.include_family) => given(a.person_id)
          [] c.method = "add_contribution" ->
                IsDef(a.person_id) \/ IsDef(a.uid)
          [] c.method = "delete_contribution" -> IsDef(a.payment_id)
          [] c.method = "list_pledges" -> IsDef(a.campaign_id)
          [] OTHER -> TRUE

\* C4: on a dry-run BreezeApi client every method called with arguments the
\* validation rules accept hands the caller a promise resolved with the
\* empty value: no error and no undefined result.
C4_DryRunReturnsEmpty ==
    (Built /\ IsBreezeApi /\ ctor.dry_run = <<TRUE>>)
    => \A i \in DOMAIN calls :
           DeclaredValid(calls[i])
           => /\ calls[i].threw = "none"
              /\ calls[i].returned = "promise"
              /\ calls[i].pstate = "resolved"
              /\ calls[i].pvalue = EmptyObject

\* C5: whatever the variant, a call answered with { "error": "bad key" } is
\* rejected with a BreezeError, and a call answered with { "id": "1" } or
\* with true is resolved with that value.
C5_ErrorKeyDecides ==
    \A i \in DOMAIN calls :
        /\ Answered(calls[i], Obj([error |-> Str("bad key")]))
               => RejectedWithBreezeError(calls[i])
        /\ \A b \in {Obj([id |-> Str("1")]), Bool(TRUE)} :
               Answered(calls[i], b)
               => (calls[i].pstate = "resolved" /\ calls[i].pvalue = b)

\* the query string get_people is to build: the parameters present, in
\* declaration order; the flag details is present when it is true
PeopleQuery(a) ==
    join((IF IsDef(a.limit) THEN <<"limit=" \o ToString(a.limit[1])>>
          ELSE << >>)
         \o (IF IsDef(a.offset) THEN <<"offset=" \o ToString(a.offset[1])>>
             ELSE << >>)
         \o (IF a.details = <<TRUE>> THEN <<"details=1">> ELSE << >>)
         \o (IF "filter_json" \in DOMAIN a /\ IsDef(a.filter_json)
             THEN <<"filter_json=" \o JSON_stringify(a.filter_json[1])>>
             ELSE << >>),
         "&")

\* C6: whatever arguments get_people is given, the request goes to
\* /api/people/? followed by exactly the present parameters, each once,
\* joined by &, in the order limit, offset, details, filter_json; with
\* limit 10, offset 5 and details true that is limit=10&offset=5&details=1.
C6_PeopleQueryInOrder ==
    \A i \in DOMAIN calls :
        (calls[i].method = "get_people" /\ Sent(calls[i]))
        => /\ calls[i].fetch[1].url
                  = client.breeze_url[1] \o "/api/people/?"
                    \o PeopleQuery(calls[i].args)
           /\ (/\ calls[i].args.limit = <<10>>
               /\ calls[i].args.offset = <<5>>
               /\ calls[i].args.details = <<TRUE>>
               /\ ("filter_json" \in DOMAIN calls[i].args
                       => calls[i].args.filter_json = Undefined))
              => calls[i].fetch[1].url
                     = client.breeze_url[1]
                       \o "/api/people/?limit=10&offset=5&details=1"

\* C7: in both BreezeApi variants event_check_in without a person identifier
\* or without an event-instance identifier throws a BreezeError and sends
\* nothing.
C7_CheckInValidates ==
    \A i \in DOMAIN calls :
        (/\ calls[i].method = "event_check_in"
         /\ \/ calls[i].args.person_id = Undefined
            \/ (IF client.variant = "obj" THEN calls[i].args.instance_id
                ELSE calls[i].args.event_instance_id) = Undefined)
        => (calls[i].threw = "BreezeError" /\ ~Sent(calls[i]))

\* C8: add_contribution with neither person_id nor uid throws a BreezeError
\* and sends nothing; with at least one of them it throws nothing; with both,
\* the request carries person_id and no uid.
C8_AddContributionIdentifier ==
    \A i \in DOMAIN calls :
        calls[i].method = "add_contribution"
        => LET a == calls[i].args
           IN  /\ (a.person_id = Undefined /\ a.uid = Undefined)
                      => /\ calls[i].threw = "BreezeError"
                         /\ ~Sent(calls[i])
                         /\ calls[i].pstate = "none"
               /\ (a.person_id # Undefined \/ a.uid # Undefined)
                      => calls[i].threw = "none"
               /\ (a.person_id # Undefined /\ a.uid # Undefined
                   /\ Sent(calls[i]))
                      => /\ Contains(calls[i].fetch[1].url, "person_id=")
                         /\ ~Contains(calls[i].fetch[1].url, "uid=")

\* add_contribution was given both identifiers and its request went out
C8_Witness ==
    /\ calls # << >>
    /\ calls[1].method = "add_contribution"
    /\ client.variant = "obj"
    /\ calls[1].args.person_id = <<1>>
    /\ calls[1].args.uid = <<1>>
    /\ Sent(calls[1])

\* C9: when the service answers add_contribution, edit_contribution or
\* delete_contribution with a body carrying payment_id = P, the caller
\* obtains P: the method's result is, or resolves to, P.
C9_PaymentIdReturned ==
    \A i \in DOMAIN calls :
        (/\ calls[i].method \in {"add_contribution", "edit_contribution",
                               "delete_contribution"}
         /\ Answered(calls[i], Obj([payment_id |-> Str("P")])))
        => /\ calls[i].returned = "promise"
           /\ calls[i].pstate = "resolved"
           /\ calls[i].pvalue = Str("P")

\* C10: a call that ends with a validation error (a BreezeError thrown by
\* the method) has not sent a request and has not reached the request
\* primitive.
C10_ValidationBeforeIO ==
    \A i \in DOMAIN calls :
        calls[i].threw = "BreezeError"
        => (~Sent(calls[i]) /\ calls[i].pstate = "none")

\* list_contributions threw on a client that had already sent a request
C10_Witness ==
    /\ calls # << >>
    /\ calls[1].threw = "BreezeError"
    /\ calls[1].method = "list_contributions"
    /\ client.variant = "pos"
    /\ client.dry_run = <<FALSE>>
    /\ nfetch = 1

\* C11: one step issues at most one HTTP request, and only the step in which
\* the caller invokes a method issues one: an answer, a failure included,
\* sends nothing again.  A call holds at most one request, and the request of
\* get_events, get_tags, list_contributions and list_funds is the
\* parameterised one, never the fallback of the catch branch.
C11_AtMostOneRequest ==
    [][/\ nfetch' <= nfetch + 1
       /\ nfetch' # nfetch => (calls = << >> /\ calls' # << >>)
       /\ \A i \in DOMAIN calls' :
              LET c == calls'[i]
                  base == client'.breeze_url[1]
              IN  /\ Len(c.fetch) <= 1
                  /\ Sent(c) =>
                         /\ c.method = "get_events"
                                => StartsWith(c.fetch[1].url,
                                              base \o "/api/events/?")
                         /\ c.method = "get_tags"
                                => StartsWith(c.fetch[1].url,
                                              base \o "/api/tags/list_tags?")
                         /\ c.method = "list_contributions"
                                => StartsWith(c.fetch[1].url,
                                              base \o "/api/giving/list?")
                         /\ c.method = "list_funds"
                                => StartsWith(c.fetch[1].url,
                                              base \o "/api/funds/list?")]_vars

\* the only request of the client was list_funds, and it met a transport
\* failure
C11_Witness ==
    /\ calls # << >>
    /\ calls[1].method = "list_funds"
    /\ Sent(calls[1])
    /\ calls[1].outcome # << >>
    /\ calls[1].outcome[1].net = "failed"
    /\ calls[1].pstate = "rejected"
    /\ nfetch = 1

\* the request met a transport failure: DNS, connection refused, timeout
TransportFailed(c) == c.outcome # << >> /\ c.outcome[1].net = "failed"

C13_BadStatusOrJsonRejects ==
    \A i \in DOMAIN calls :
        (/\ calls[i].outcome # << >>
         /\ calls[i].outcome[1].net = "ok"
         /\ \/ calls[i].outcome[1].status \notin 200..299
            \/ calls[i].outcome[1].json = "invalid")
        => RejectedWithBreezeError(calls[i])

\* C14: once construction has returned a client, no step changes its
\* breeze_url, api_key or dry_run, and they are what construction stored from
\* its arguments.
C14_ConfigurationImmutable ==
    [][Built => /\ client'.breeze_url = client.breeze_url
                /\ client'.api_key = client.api_key
                /\ client'.dry_run = client.dry_run
                /\ client'.breeze_url = ctor.breeze_url
                /\ client'.api_key = ctor.api_key
                /\ TruthyBool(client'.dry_run) = TruthyBool(ctor.dry_run)]_vars

\* two requests went out, the second is rejected, and the configuration is
\* the one given at construction
C14_Witness ==
    /\ Built
    /\ nfetch = 2
    /\ calls # << >>
    /\ calls[1].pstate = "rejected"
    /\ client.breeze_url = <<"https://demo.breezechms.com">>
    /\ client.api_key = <<"k3y">>
    /\ client.dry_run = <<FALSE>>

\* C15: every request handed to fetch has method GET, the headers
\* Content-Type: application/json and Api-Key: the key given at construction,
\* and a URL that is the base URL given at construction followed by the
\* endpoint: an /api/ path, and for the bare request primitive exactly the
\* endpoint it was given.
C15_RequestShape ==
    \A i \in DOMAIN calls :
        Sent(calls[i])
        => LET f == calls[i].fetch[1]
               base == ctor.breeze_url[1]
           IN  /\ f.method = "GET"
               /\ f.content_type = "application/json"
               /\ f.api_key = ctor.api_key[1]
               /\ StartsWith(f.url, base \o "/api/")
               /\ calls[i].method \in {"_request", "request"}
                      => f.url = base \o calls[i].args.endpoint

\* list_pledges of the positional variant sent its request
C15_Witness ==
    /\ calls # << >>
    /\ client.variant = "pos"
    /\ calls[1].method = "list_pledges"
    /\ Sent(calls[1])
    /\ calls[1].fetch[1].url
           = "https://demo.breezechms.com/api/pledges/list_pledges?campaign_id=1"

\* the timeout, in seconds, the method of call c supplies to the request
\* primitive; << >> when it supplies none
SuppliedTimeout(c) ==
    IF c.method = "get_people" THEN <<10>>
    ELSE IF c.method \in {"_request", "request"}
            /\ c.args.optionalObj # Undefined
    THEN c.args.optionalObj[1].timeout
    ELSE Undefined

\* C16: every request handed to fetch carries the timeout the method
\* supplied, in milliseconds, and 30 seconds when the method supplied none;
\* get_people's request carries 10 seconds in both BreezeApi variants.
C16_TimeoutApplied ==
    \A i \in DOMAIN calls :
        Sent(calls[i])
        => calls[i].fetch[1].timeout
               = (IF SuppliedTimeout(calls[i]) # Undefined
                  THEN SuppliedTimeout(calls[i])[1] ELSE 30) * 1000

\* the string form of an optional identifier: a number in the
\* object-argument variant, a string in the positional one
IdString(x) == IF client.variant = "obj" THEN ToString(x[1]) ELSE x[1]

\* C17: the query string carries each present parameter as name=value with
\* the value the caller gave: add_contribution's date, person_id, uid,
\* processor and amount, delete_contribution's payment_id, get_tags'
\* folder_id.
C17_CallerValuesSent ==
    \A i \in DOMAIN calls :
        Sent(calls[i])
        => LET a == calls[i].args
               url == calls[i].fetch[1].url
           IN  /\ calls[i].method = "add_contribution"
                      => /\ IsDef(a.date)
                                => Contains(url, "date=" \o a.date[1])
                         /\ IsDef(a.person_id)
                                => Contains(url, "person_id="
                                                 \o IdString(a.person_id))
                         /\ (~IsDef(a.person_id) /\ IsDef(a.uid))
                                => Contains(url, "uid=" \o IdString(a.uid))
                         /\ IsDef(a.processor)
                                => Contains(url, "processor="
                                                 \o a.processor[1])
                         /\ IsDef(a.amount)
                                => Contains(url, "amount=" \o a.amount[1])
               /\ calls[i].method = "delete_contribution"
                      => (IsDef(a.payment_id)
                             => Contains(url, "payment_id="
                                              \o a.payment_id[1]))
               /\ calls[i].method = "get_tags"
                      => (IsDef(a.folder_id)
                             => Contains(url, "folder_id=" \o a.folder_id[1]))

\* C18: get_event_list never sends a request to
\* /api/events/attendance/delete; a request to that path comes from
\* event_check_out only.
C18_ListNeverDeletes ==
    \A i \in DOMAIN calls :
        (/\ Sent(calls[i])
         /\ StartsWith(calls[i].fetch[1].url,
                       client.breeze_url[1]
                       \o "/api/events/attendance/delete"))
        => /\ calls[i].method # "get_event_list"
           /\ calls[i].method = "event_check_out"

\* what the method of call c does when it is the client's only call
AloneResult(c) ==
    CASE client.variant = "obj" /\ c.method = "get_people" ->
             get_people_obj(client, c.args)
      [] client.variant = "obj" /\ c.method = "list_pledges" ->
             list_pledges_obj(client, c.args)
      [] client.variant = "pos" /\ c.method = "get_people" ->
             get_people_pos(client, c.args)
      [] client.variant = "pos" /\ c.method = "list_pledges" ->
             list_pledges_pos(client, c.args)
      [] client.variant = "cls" ->
             request_cls(client, c.args.endpoint, c.args.optionalObj)
      [] client.variant = "fac" ->
             request_fac(client, c.args.endpoint, c.args.optionalObj)

\* C19: with several calls outstanding on one client and the answers
\* arriving in any order, every call has sent the request, and returned or
\* thrown, as it does when it is the only call, a call that has no answer
\* yet is still as the method left it, and a call that has its answer is
\* settled as the promise chain settles that answer alone.
C19_CallsIndependent ==
    \A i \in DOMAIN calls :
        LET c == calls[i]
            alone == AloneResult(c)
        IN  /\ c.threw = alone.threw
            /\ c.fetch = alone.fetch
            /\ c.returned = alone.returned
            /\ IF c.outcome = << >>
               THEN c.pstate = alone.pstate /\ c.pvalue = alone.pvalue
               ELSE LET s == Settle(client.variant, c.outcome[1])
                    IN  c.pstate = s.pstate /\ c.pvalue = s.pvalue

\* two different requests were outstanding together; the later one was
\* answered first and is resolved, the earlier one was answered with an
\* error body and is rejected
C19_Witness ==
    /\ Len(calls) = 2
    /\ client.variant = "obj"
    /\ calls[1].method = "get_people"
    /\ calls[2].method = "list_pledges"
    /\ calls[1].fetch # calls[2].fetch
    /\ calls[1].pstate = "rejected"
    /\ calls[1].outcome = <<[net |-> "ok", status |-> 200, json |-> "valid",
                             body |-> Obj([error |-> Str("bad key")])]>>
    /\ calls[2].pstate = "resolved"
    /\ calls[2].pvalue = Obj([id |-> Str("1")])

\* C20: every call that has sent its request is eventually settled, resolved
\* or rejected, also when no answer ever arrives, and once settled it keeps
\* its state and value.
C20_EventuallySettlesOnce ==
    /\ \A i \in 1..MaxCalls :
           (i \in DOMAIN calls /\ Sent(calls[i]))
           ~> (i \in DOMAIN calls
               /\ calls[i].pstate \in {"resolved", "rejected"})
    /\ [][\A i \in DOMAIN calls :
              ~Pending(calls[i])
              => /\ calls'[i].pstate = calls[i].pstate
                 /\ calls'[i].pvalue = calls[i].pvalue]_vars

\* the calls whose request carries a timer: the same, for requests sent
\* with a timeout above 0
PositiveTimeoutSettles ==
    \A i \in 1..MaxCalls :
        (i \in DOMAIN calls /\ Sent(calls[i])
         /\ calls[i].fetch[1].timeout > 0)
        ~> (i \in DOMAIN calls
            /\ calls[i].pstate \in {"resolved", "rejected"})

\* C21: a request of the BreezeAsync class and a request of the factory's
\* client, answered with the same outcome, settle alike: whichever of the two
\* the call was made on, it is settled as the class settles that outcome and
\* as the factory settles it, resolved with the decoded body or rejected with
\* a BreezeError; a body carrying error is rejected by both.
C21_ClassAndFactoryAgree ==
    \A i \in DOMAIN calls :
        (client.variant \in {"cls", "fac"} /\ calls[i].outcome # << >>)
        => LET o == calls[i].outcome[1]
           IN  /\ settle_cls(o).pstate = settle_fac(o).pstate
               /\ calls[i].pstate = settle_cls(o).pstate
               /\ calls[i].pstate = "resolved" => calls[i].pvalue = o.body
               /\ calls[i].pstate = "rejected"
                      => calls[i].pvalue[1] = "BreezeError"
               /\ (o.net = "ok" /\ o.json = "valid"
                   /\ o.body \in {Obj([error |-> Str("bad key")]),
                                  Obj([errorCode |-> Num(7)])})
                      => calls[i].pstate = "rejected"

\* C22: in BreezeApi and in the BreezeAsync class, a call answered with an
\* object whose error key holds the falsy value false, or with an array, is
\* resolved with that body.
C22_FalsyErrorIsSuccess ==
    \A i \in DOMAIN calls :
        client.variant \in {"obj", "pos", "cls"}
        => \A b \in {Obj([error |-> Bool(FALSE)]), Arr(0)} :
               Answered(calls[i], b)
               => (calls[i].pstate = "resolved" /\ calls[i].pvalue = b)

\* C23: in both BreezeApi variants, get_event, get_event_list and
\* get_event_eligible without instance_id, event_check_out without person_id
\* or without the instance identifier, delete_contribution without payment_id
\* and list_pledges without campaign_id throw a BreezeError and send nothing.
C23_RequiredIdentifier ==
    \A i \in DOMAIN calls :
        LET c == calls[i]
            a == c.args
            omitted ==
                \/ /\ c.method \in {"get_event", "get_event_list",
                                     "get_event_eligible"}
                   /\ a.instance_id = Undefined
                \/ /\ c.method = "event_check_out"
                   /\ \/ a.person_id = Undefined
                      \/ (IF client.variant = "obj" THEN a.instance_id
                          ELSE a.event_instance_id) = Undefined
                \/ c.method = "delete_contribution" /\ a.payment_id = Undefined
                \/ c.method = "list_pledges" /\ a.campaign_id = Undefined
        IN  (IsBreezeApi /\ omitted)
            => (c.threw = "BreezeError" /\ ~Sent(c))

\* C24: get_event_list with an instance_id and type 'person' or 'anonymous'
\* throws nothing and its request carries type=<value>; with another type it
\* throws a BreezeError.
C24_EventListType ==
    \A i \in DOMAIN calls :
        (calls[i].method = "get_event_list"
         /\ calls[i].args.instance_id # Undefined
         /\ calls[i].args.type # Undefined)
        => LET type == calls[i].args.type[1]
           IN  /\ type \in {"person", "anonymous"}
                      => /\ calls[i].threw = "none"
                         /\ Sent(calls[i])
                                => Contains(calls[i].fetch[1].url,
                                            "type=" \o type)
               /\ trim(type) \notin {"person", "anonymous"}
                      => calls[i].threw = "BreezeError"

\* C25: get_event with an instance_id, schedule = true and schedule_direction
\* 'before' or 'after' (and no details) throws nothing and its request
\* carries schedule_direction=<value>; schedule_direction or schedule_limit
\* without a truthy schedule, or a schedule_direction that is neither, throws
\* a BreezeError.
C25_EventScheduleDirection ==
    \A i \in DOMAIN calls :
        (calls[i].method = "get_event" /\ calls[i].args.instance_id # Undefined)
        => LET a == calls[i].args
           IN  /\ (/\ a.schedule = <<TRUE>>
                   /\ a.schedule_direction \in {<<"before">>, <<"after">>}
                   /\ a.details = Undefined)
                      => /\ calls[i].threw = "none"
                         /\ Sent(calls[i])
                                => Contains(calls[i].fetch[1].url,
                                            "schedule_direction="
                                            \o a.schedule_direction[1])
               /\ (/\ ~TruthyBool(a.schedule)
                   /\ \/ a.schedule_direction # Undefined
                      \/ a.schedule_limit # Undefined)
                      => calls[i].threw = "BreezeError"
               /\ (/\ a.schedule_direction # Undefined
                   /\ trim(a.schedule_direction[1]) \notin {"before", "after"})
                      => calls[i].threw = "BreezeError"

\* C26: get_event with an instance_id and details supplied (and no
\* schedule_direction) throws nothing, also when eligible is omitted, and its
\* request carries details=<the value of details>.
C26_EventDetailsOwnValue ==
    \A i \in DOMAIN calls :
        (/\ calls[i].method = "get_event"
         /\ calls[i].args.instance_id # Undefined
         /\ calls[i].args.schedule_direction = Undefined
         /\ calls[i].args.schedule_limit = Undefined
         /\ calls[i].args.details # Undefined)
        => /\ calls[i].threw = "none"
           /\ Sent(calls[i])
                  => Contains(calls[i].fetch[1].url,
                              "details="
                              \o BoolToString(calls[i].args.details[1]))

\* C27: in both BreezeApi variants list_contributions with include_family =
\* true and no person_id throws a BreezeError and sends nothing; with
\* include_family absent or false, or with a person_id given, it throws
\* nothing.
C27_IncludeFamilyNeedsPerson ==
    \A i \in DOMAIN calls :
        (IsBreezeApi /\ calls[i].method = "list_contributions")
        => LET a == calls[i].args
               given == IF client.variant = "obj" THEN TruthyNum(a.person_id)
                        ELSE TruthyStr(a.person_id)
           IN  /\ (a.include_family = <<TRUE>> /\ a.person_id = Undefined)
                      => (calls[i].threw = "BreezeError" /\ ~Sent(calls[i]))
               /\ (a.include_family \in {Undefined, <<FALSE>>} \/ given)
                      => calls[i].threw = "none"

\* the text of s before the first '/', '?' or '#'
UpToDelimiter(s) ==
    LET at == {i \in 1..Len(s) : SubSeq(s, i, i) \in {"/", "?", "#"}}
    IN  IF at = {} THEN s
        ELSE SubSeq(s, 1, (CHOOSE i \in at : \A j \in at : i <= j) - 1)

\* the host of an https URL
Host(url) == UpToDelimiter(SubSeq(url, Len("https://") + 1, Len(url)))

\* C28: every request, and with it the Api-Key header, goes to a host that
\* is a subdomain of breezechms.com.
C28_KeyOnlyToBreeze ==
    \A i \in DOMAIN calls :
        Sent(calls[i])
        => /\ StartsWith(calls[i].fetch[1].url, "https://")
           /\ EndsWith(Host(calls[i].fetch[1].url), ".breezechms.com")

\* the number of occurrences of the character ch in s
CountChar(s, ch) == Cardinality({i \in 1..Len(s) : SubSeq(s, i, i) = ch})

\* the number of name=value pairs a server reads from the query string of
\* url, the endpoint being one without parameters of its own
PairsSent(url) == CountChar(url, "=")

\* the number of parameters get_events has to send for arguments a
PresentInGetEvents(a) ==
    Len(SelectSeq(<<a.start_date, a.end_date, a.category_id, a.eligible,
                    a.limit>>, LAMBDA x : (Len(x) > 0)))
    + (IF a.details = <<TRUE>> THEN 1 ELSE 0)

\* C29: the request of get_events carries as many name=value pairs as there
\* are parameters present, and as many separators as pairs need, also when a
\* value contains '&' or '='.
C29_ValuesEncoded ==
    \A i \in DOMAIN calls :
        (client.variant = "obj" /\ calls[i].method = "get_events"
         /\ Sent(calls[i]))
        => LET n == PresentInGetEvents(calls[i].args)
               url == calls[i].fetch[1].url
           IN  /\ PairsSent(url) = n
               /\ CountChar(url, "&") = (IF n = 0 THEN 0 ELSE n - 1)

\* C30: in both BreezeApi variants the request of get_people carries
\* details=1 exactly when details is true, and for the same limit, offset and
\* details the two variants build the same URL.
C30_FlagOnlyWhenTrue ==
    \A i \in DOMAIN calls :
        (IsBreezeApi /\ calls[i].method = "get_people" /\ Sent(calls[i]))
        => LET a == calls[i].args
               three == [limit |-> a.limit, offset |-> a.offset,
                         details |-> a.details]
           IN  /\ Contains(calls[i].fetch[1].url, "details=")
                      <=> a.details = <<TRUE>>
               /\ get_people_obj(client,
                                 [limit |-> a.limit, offset |-> a.offset,
                                  details |-> a.details,
                                  filter_json |-> Undefined]).fetch[1].url
                      = get_people_pos(client, three).fetch[1].url

====
